---- MODULE Spec2Model ----
(***************************************************************************)
(* Model of collect_data.py: the memoized credential load and the cached,  *)
(* authenticated fetch layer (get_cached, get_stats, get_puzzle_data,      *)
(* list_puzzles).                                                          *)
(*                                                                         *)
(* Text (HTTP bodies, cache files) is a sequence of JSON tokens; json.load *)
(* and json.dump are computed on it.  Time is counted in hours.            *)
(*                                                                         *)
(*   Spec      one process at a time; every call is one atomic action;     *)
(*             an uncaught exception ends the process (main has no         *)
(*             try/except) and a new invocation starts with an empty       *)
(*             lru_cache; a write may be interrupted after open(mode='w'). *)
(*   SpecConc  concurrent invocations for one user, each running           *)
(*             get_stats or get_puzzle_data step by step (exists, load,    *)
(*             GET, open, write, close) on the shared cache directory.     *)
(***************************************************************************)
EXTENDS Integers, Sequences, FiniteSets, TLC

VARIABLES credFile, memo, files, now, alive, credReads, last, fetched,
          firstLoad, pc, loc, overlap, lastWriter, tornRead

vars == <<credFile, memo, files, now, alive, credReads, last, fetched,
          firstLoad, pc, loc, overlap, lastWriter, tornRead>>

seqVars == <<credFile, memo, now, alive, credReads, last, fetched,
             firstLoad>>
concVars == <<pc, loc, overlap, lastWriter, tornRead>>

----------------------------------------------------------------------------
(* Bounds *)

MaxTime == 13
MaxReads == 2

(* datetime.timedelta(hours=12) *)
Expiration == 12

PuzzleIds == {42}
DateRanges == { <<"2026-10-06", "2026-11-03">>, <<"2026-10-07", "2026-11-04">> }
NumProcs == 3
Procs == 1..NumProcs

----------------------------------------------------------------------------
(* JSON text and values.                                                   *)
(* A value is depth-many {"results": ...} objects around a leaf.           *)

Leaves == {"null", "false", "0", "1", "{}", "[]"}

JValue(d, l) == [depth |-> d, leaf |-> l]

(* Python None; json.load maps the text null to it as well. *)
None == JValue(0, "null")

(* json.JSONDecodeError raised by the parse *)
Invalid == JValue(-1, "invalid")

IsWs(tok) == tok = "ws"

NotWs(tok) == ~IsWs(tok)

RECURSIVE ParseTokens(_)
ParseTokens(t) ==
    IF Len(t) = 1 /\ t[1] \in Leaves THEN JValue(0, t[1])
    ELSE IF /\ Len(t) >= 5
            /\ t[1] = "{" /\ t[2] = "results" /\ t[3] = ":"
            /\ t[Len(t)] = "}"
         THEN LET inner == ParseTokens(SubSeq(t, 4, Len(t) - 1))
              IN IF inner = Invalid THEN Invalid
                 ELSE JValue(inner.depth + 1, inner.leaf)
         ELSE Invalid

(* json.load / json.loads / Response.json: whitespace between tokens is    *)
(* skipped, exactly one value must remain.                                 *)
json_load(text) == ParseTokens(SelectSeq(text, NotWs))

(* json.dump with the default separators (', ', ': ') *)
RECURSIVE json_dump(_)
json_dump(v) ==
    IF v.depth = 0 THEN <<v.leaf>>
    ELSE <<"{", "results", ":", "ws">> \o json_dump(JValue(v.depth - 1, v.leaf))
           \o <<"}">>

(* Python truth value of a parsed JSON value: None, False, 0, {} and []    *)
(* are false; a non-empty object and 1 are true.                           *)
Truthy(v) == v.depth > 0 \/ v.leaf = "1"

(* resp.json()['results']: only an object with that key has it *)
HasResults(v) == v.depth > 0

ResultsOf(v) == JValue(v.depth - 1, v.leaf)

Bodies ==
    { <<>>,
      <<"{}">>,
      <<"{", "results", ":", "{}", "}">>,
      <<"{", "results", ":", "{", "results", ":", "0", "}", "}">> }

(* Statuses that requests hands back (redirects without a Location, such   *)
(* as 304, are not followed); an error status carries no body here.        *)
Responses ==
    [status : {200, 304}, body : Bodies]
    \cup [status : {404, 500}, body : {<<>>}]

NoResp == [status |-> 0, body |-> <<>>]

----------------------------------------------------------------------------
(* Credential file and lru_cache *)

NoKey == "<missing>"

CredObjects ==
    { [user_id |-> "u1", cookie |-> "c1"],
      [user_id |-> "u1", cookie |-> NoKey],
      [user_id |-> NoKey, cookie |-> "c1"] }

NoObj == [user_id |-> NoKey, cookie |-> NoKey]

CredFiles ==
    { [kind |-> "absent", obj |-> NoObj], [kind |-> "garbage", obj |-> NoObj] }
    \cup { [kind |-> "object", obj |-> o] : o \in CredObjects }

EmptyMemo == [loaded |-> FALSE, obj |-> NoObj]

(* Result of a credential accessor: the value or the exception (got: the   *)
(* object get_user_info returned, if any), the lru_cache afterwards and    *)
(* the number of reads of user_info.json.                                  *)
CredResult(ok, err, val, obj, m, reads) ==
    [ok |-> ok, got |-> ok, err |-> err, val |-> val, obj |-> obj,
     memo |-> m, reads |-> reads]

(* The same without @functools.lru_cache: every call loads the file. *)
get_user_info_unmemoized(m, cf) ==
    IF cf.kind = "absent"
    THEN CredResult(FALSE, "FileNotFoundError", NoKey, NoObj, m, 0)
    ELSE IF cf.kind = "garbage"
    THEN CredResult(FALSE, "JSONDecodeError", NoKey, NoObj, m, 1)
    ELSE CredResult(TRUE, "none", NoKey, cf.obj, m, 1)

get_user_info(m, cf) ==
    IF m.loaded THEN CredResult(TRUE, "none", NoKey, m.obj, m, 0)
    ELSE IF cf.kind = "absent"
    THEN CredResult(FALSE, "FileNotFoundError", NoKey, NoObj, m, 0)
    ELSE IF cf.kind = "garbage"
    THEN CredResult(FALSE, "JSONDecodeError", NoKey, NoObj, m, 1)
    ELSE CredResult(TRUE, "none", NoKey, cf.obj,
                    [loaded |-> TRUE, obj |-> cf.obj], 1)

user_id(m, cf) ==
    LET r == get_user_info(m, cf)
    IN IF ~r.ok THEN r
       ELSE IF r.obj.user_id = NoKey
       THEN [r EXCEPT !.ok = FALSE, !.err = "KeyError"]
       ELSE [r EXCEPT !.val = r.obj.user_id]

user_cookie(m, cf) ==
    LET r == get_user_info(m, cf)
    IN IF ~r.ok THEN r
       ELSE IF r.obj.cookie = NoKey
       THEN [r EXCEPT !.ok = FALSE, !.err = "KeyError"]
       ELSE [r EXCEPT !.val = r.obj.cookie]

----------------------------------------------------------------------------
(* Cache directory *)

UserIds == {"u1"}

StatsPath(uid) == <<uid, "stats", 0>>

PuzzlePath(uid, p) == <<uid, "puzzle", p>>

Paths == { StatsPath(u) : u \in UserIds }
         \cup { PuzzlePath(u, p) : u \in UserIds, p \in PuzzleIds }

NoPath == <<"-", "-", 0>>

NoFile == [exists |-> FALSE, content |-> <<>>, mtime |-> 0]

FileOf(fs, path) == IF path \in Paths THEN fs[path] ELSE NoFile

(* open(mode='w') truncates; the text (below the 8 KiB buffer) reaches the  *)
(* file in one write when the file object is closed.  A process killed in  *)
(* between leaves the file empty.                                          *)
WriteFile(fs, path, text, killed, t) ==
    [fs EXCEPT ![path] = [exists |-> TRUE,
                          content |-> IF killed THEN <<>> ELSE text,
                          mtime |-> t]]

(* get_cached that never looks at the modification time *)
get_cached_ignoring_age(fs, path, hasExpiration, expiration, t) ==
    IF ~fs[path].exists THEN None
    ELSE json_load(fs[path].content)

(* None on a miss, Invalid when json.load raises *)
get_cached(fs, path, hasExpiration, expiration, t) ==
    IF ~fs[path].exists THEN None
    ELSE IF hasExpiration /\ (t - fs[path].mtime) > expiration THEN None
    ELSE json_load(fs[path].content)

(* Whether get_cached opened the file to read it *)
CacheOpened(fs, path, hasExpiration, expiration, t) ==
    /\ fs[path].exists
    /\ ~(hasExpiration /\ (t - fs[path].mtime) > expiration)

----------------------------------------------------------------------------
(* HTTP *)

Request(endpoint, uid, puzzle, dateStart, dateEnd, header) ==
    [endpoint |-> endpoint, user |-> uid, puzzle |-> puzzle,
     date_start |-> dateStart, date_end |-> dateEnd, nyt_s |-> header]

(* raise_for_status that only knows server errors *)
raise_for_status_server_only(status) == 500 <= status /\ status < 600

(* requests.Response.raise_for_status: HTTPError for 4xx and 5xx only *)
raise_for_status(status) == 400 <= status /\ status < 600

----------------------------------------------------------------------------
(* What one call did: the requests it sent, whether it opened the cache    *)
(* file, how it ended (return / error / killed) and the cache afterwards.  *)

Result(cred, opened, sent, resp, outcome, err, at, status, ret, newFiles) ==
    [cred |-> cred, opened |-> opened, sent |-> sent, resp |-> resp,
     outcome |-> outcome, err |-> err, at |-> at, status |-> status,
     ret |-> ret, files |-> newFiles]

(* The exception of a failed credential accessor, before anything else ran *)
CredFailure(cred) ==
    Result(cred, FALSE, <<>>, NoResp, "error", cred.err, "credentials", 0,
           None, files)

NoFetch == [set |-> FALSE, val |-> None]

(* The record of the last call is kept until anything else happens *)
NoLast ==
    [op |-> "-", puzzle |-> 0, dates |-> <<"-", "-">>, path |-> NoPath,
     pre |-> NoFile, preFiles |-> [q \in Paths |-> NoFile], age |-> 0,
     preFetched |-> NoFetch, credOk |-> FALSE, credGot |-> FALSE,
     credObj |-> NoObj, credVal |-> NoKey, opened |-> FALSE, sent |-> <<>>,
     resp |-> NoResp, outcome |-> "-", err |-> "none", at |-> "-",
     status |-> 0, ret |-> None]

(* The call is over: its effects on the process, the disk and the record   *)
(* of the last call.  An exception or a kill ends the process.             *)
Finish(op, puzzle_id, dates, path, r) ==
    /\ memo' = IF r.outcome = "return" THEN r.cred.memo ELSE EmptyMemo
    /\ credReads' = credReads + r.cred.reads
    /\ firstLoad' = IF ~firstLoad.set /\ r.cred.got
                    THEN [set |-> TRUE, obj |-> r.cred.obj]
                    ELSE firstLoad
    /\ alive' = (r.outcome = "return")
    /\ files' = r.files
    /\ fetched' =
         IF path \in Paths /\ r.files[path] # files[path]
         THEN [fetched EXCEPT ![path] =
                 IF op = "get_puzzle_data" /\ ~files[path].exists
                    /\ r.outcome = "return"
                 THEN [set |-> TRUE, val |-> r.ret]
                 ELSE NoFetch]
         ELSE fetched
    /\ last' = [op |-> op, puzzle |-> puzzle_id, dates |-> dates,
                path |-> path, pre |-> FileOf(files, path),
                preFiles |-> files,
                age |-> now - FileOf(files, path).mtime,
                preFetched |-> IF path \in Paths THEN fetched[path] ELSE NoFetch,
                credOk |-> r.cred.ok, credGot |-> r.cred.got,
                credObj |-> r.cred.obj,
                credVal |-> r.cred.val,
                opened |-> r.opened, sent |-> r.sent, resp |-> r.resp,
                outcome |-> r.outcome, err |-> r.err, at |-> r.at,
                status |-> r.status, ret |-> r.ret]
    /\ UNCHANGED <<credFile, now>>
    /\ UNCHANGED concVars

Callable == alive /\ credReads < MaxReads

----------------------------------------------------------------------------
(* Direct calls of the credential accessors *)

Call_get_user_info ==
    /\ Callable
    /\ LET c == get_user_info(memo, credFile)
       IN Finish("get_user_info", 0, <<"-", "-">>, NoPath,
                 IF c.ok
                 THEN Result(c, FALSE, <<>>, NoResp, "return", "none", "-", 0,
                             None, files)
                 ELSE CredFailure(c))

Call_user_id ==
    /\ Callable
    /\ LET c == user_id(memo, credFile)
       IN Finish("user_id", 0, <<"-", "-">>, NoPath,
                 IF c.ok
                 THEN Result(c, FALSE, <<>>, NoResp, "return", "none", "-", 0,
                             None, files)
                 ELSE CredFailure(c))

Call_user_cookie ==
    /\ Callable
    /\ LET c == user_cookie(memo, credFile)
       IN Finish("user_cookie", 0, <<"-", "-">>, NoPath,
                 IF c.ok
                 THEN Result(c, FALSE, <<>>, NoResp, "return", "none", "-", 0,
                             None, files)
                 ELSE CredFailure(c))

----------------------------------------------------------------------------
(* list_puzzles(start, stop): no cache, no auth header *)

(* list_puzzles that also stores its results where get_stats keeps them *)
list_puzzles_outcome_caching(start, stop, resp) ==
    LET c == user_id(memo, credFile)
        req == Request("v3/puzzles", c.val, 0, start, stop, "-")
        body == json_load(resp.body)
    IN IF ~c.ok THEN CredFailure(c)
       ELSE IF raise_for_status(resp.status)
       THEN Result(c, FALSE, <<req>>, resp, "error", "HTTPError", "response",
                   resp.status, None, files)
       ELSE IF body = Invalid
       THEN Result(c, FALSE, <<req>>, resp, "error", "JSONDecodeError",
                   "response", 0, None, files)
       ELSE IF ~HasResults(body)
       THEN Result(c, FALSE, <<req>>, resp, "error", "KeyError", "response",
                   0, None, files)
       ELSE Result(c, FALSE, <<req>>, resp, "return", "none", "-", 0,
                   ResultsOf(body),
                   WriteFile(files, StatsPath(c.val),
                             json_dump(ResultsOf(body)), FALSE, now))

list_puzzles_outcome(start, stop, resp) ==
    LET c == user_id(memo, credFile)
        req == Request("v3/puzzles", c.val, 0, start, stop, "-")
        body == json_load(resp.body)
    IN IF ~c.ok THEN CredFailure(c)
       ELSE IF raise_for_status(resp.status)
       THEN Result(c, FALSE, <<req>>, resp, "error", "HTTPError", "response",
                   resp.status, None, files)
       ELSE IF body = Invalid
       THEN Result(c, FALSE, <<req>>, resp, "error", "JSONDecodeError",
                   "response", 0, None, files)
       ELSE IF ~HasResults(body)
       THEN Result(c, FALSE, <<req>>, resp, "error", "KeyError", "response",
                   0, None, files)
       ELSE Result(c, FALSE, <<req>>, resp, "return", "none", "-", 0,
                   ResultsOf(body), files)

list_puzzles(start, stop) ==
    /\ Callable
    /\ \E resp \in Responses :
         Finish("list_puzzles", 0, <<start, stop>>, NoPath,
                list_puzzles_outcome(start, stop, resp))

----------------------------------------------------------------------------
(* get_stats(): cached for 12 hours, the cache holds json.dump(results) *)

get_stats_outcome(resp, killed) ==
    LET c == user_id(memo, credFile)
        stats_cache == StatsPath(c.val)
        results == get_cached(files, stats_cache, TRUE, Expiration, now)
        opened == CacheOpened(files, stats_cache, TRUE, Expiration, now)
        req == Request("v3/stats-and-streaks", c.val, 0, "2014-01-01", "-", "-")
        body == json_load(resp.body)
        text == json_dump(ResultsOf(body))
    IN IF ~c.ok THEN CredFailure(c)
       ELSE IF results = Invalid
       THEN Result(c, opened, <<>>, NoResp, "error", "JSONDecodeError",
                   "cache", 0, None, files)
       ELSE IF Truthy(results)
       THEN Result(c, opened, <<>>, NoResp, "return", "none", "-", 0,
                   results, files)
       ELSE IF raise_for_status(resp.status)
       THEN Result(c, opened, <<req>>, resp, "error", "HTTPError", "response",
                   resp.status, None, files)
       ELSE IF body = Invalid
       THEN Result(c, opened, <<req>>, resp, "error", "JSONDecodeError",
                   "response", 0, None, files)
       ELSE IF ~HasResults(body)
       THEN Result(c, opened, <<req>>, resp, "error", "KeyError", "response",
                   0, None, files)
       ELSE IF killed
       THEN Result(c, opened, <<req>>, resp, "killed", "none", "-", 0, None,
                   WriteFile(files, stats_cache, text, TRUE, now))
       ELSE Result(c, opened, <<req>>, resp, "return", "none", "-", 0,
                   ResultsOf(body),
                   WriteFile(files, stats_cache, text, FALSE, now))

get_stats ==
    /\ Callable
    /\ \E resp \in Responses : \E killed \in BOOLEAN :
         LET c == user_id(memo, credFile)
         IN Finish("get_stats", 0, <<"-", "-">>,
                   IF c.ok THEN StatsPath(c.val) ELSE NoPath,
                   get_stats_outcome(resp, killed))

----------------------------------------------------------------------------
(* get_puzzle_data(puzzle_id): cached for ever, the cache holds resp.text *)

get_puzzle_data_outcome(puzzle_id, resp, killed) ==
    LET c == user_id(memo, credFile)
        puzzle_cache == PuzzlePath(c.val, puzzle_id)
        result == get_cached(files, puzzle_cache, FALSE, 0, now)
        opened == CacheOpened(files, puzzle_cache, FALSE, 0, now)
        k == user_cookie(c.memo, credFile)
        ck == [k EXCEPT !.reads = c.reads + k.reads, !.got = c.got]
        req == Request("v6/game", "-", puzzle_id, "-", "-", k.val)
        body == json_load(resp.body)
    IN IF ~c.ok THEN CredFailure(c)
       ELSE IF result = Invalid
       THEN Result(c, opened, <<>>, NoResp, "error", "JSONDecodeError",
                   "cache", 0, None, files)
       ELSE IF Truthy(result)
       THEN Result(c, opened, <<>>, NoResp, "return", "none", "-", 0,
                   result, files)
       ELSE IF ~k.ok
       THEN Result(ck, opened, <<>>, NoResp, "error", k.err, "credentials", 0,
                   None, files)
       ELSE IF raise_for_status(resp.status)
       THEN Result(ck, opened, <<req>>, resp, "error", "HTTPError",
                   "response", resp.status, None, files)
       ELSE IF body = Invalid
       THEN Result(ck, opened, <<req>>, resp, "error", "JSONDecodeError",
                   "response", 0, None, files)
       ELSE IF killed
       THEN Result(ck, opened, <<req>>, resp, "killed", "none", "-", 0, None,
                   WriteFile(files, puzzle_cache, resp.body, TRUE, now))
       ELSE Result(ck, opened, <<req>>, resp, "return", "none", "-", 0, body,
                   WriteFile(files, puzzle_cache, resp.body, FALSE, now))

get_puzzle_data(puzzle_id) ==
    /\ Callable
    /\ \E resp \in Responses : \E killed \in BOOLEAN :
         LET c == user_id(memo, credFile)
         IN Finish("get_puzzle_data", puzzle_id, <<"-", "-">>,
                   IF c.ok THEN PuzzlePath(c.val, puzzle_id) ELSE NoPath,
                   get_puzzle_data_outcome(puzzle_id, resp, killed))

----------------------------------------------------------------------------
(* The environment of a process *)

(* python3 collect_data.py: a new process, nothing memoized *)
Start ==
    /\ ~alive
    /\ alive' = TRUE
    /\ memo' = EmptyMemo
    /\ credReads' = 0
    /\ firstLoad' = [set |-> FALSE, obj |-> NoObj]
    /\ last' = NoLast
    /\ UNCHANGED <<credFile, files, now, fetched>>
    /\ UNCHANGED concVars

(* The process ends without an error *)
Exit ==
    /\ alive
    /\ alive' = FALSE
    /\ memo' = EmptyMemo
    /\ last' = NoLast
    /\ UNCHANGED <<credFile, files, now, credReads, fetched, firstLoad>>
    /\ UNCHANGED concVars

(* time.time() advances *)
Tick ==
    /\ \E d \in {Expiration, Expiration + 1} :
         /\ now + d <= MaxTime
         /\ now' = now + d
    /\ last' = NoLast
    /\ UNCHANGED <<credFile, memo, files, alive, credReads, fetched,
                   firstLoad>>
    /\ UNCHANGED concVars

(* user_info.json is edited on disk *)
EditCredFile ==
    /\ \E cf \in CredFiles :
         /\ cf # credFile
         /\ credFile' = cf
    /\ last' = NoLast
    /\ UNCHANGED <<memo, files, now, alive, credReads, fetched, firstLoad>>
    /\ UNCHANGED concVars

----------------------------------------------------------------------------

NoLocals ==
    [op |-> "-", path |-> NoPath, cookie |-> NoKey, sent |-> <<>>,
     text |-> <<>>, ret |-> None, wrote |-> FALSE, err |-> "none",
     at |-> "-"]

ConcInit ==
    /\ pc = [p \in Procs |-> "idle"]
    /\ loc = [p \in Procs |-> NoLocals]
    /\ overlap = {}
    /\ lastWriter = [q \in Paths |-> 0]
    /\ tornRead = {}

Init ==
    /\ credFile \in CredFiles
    /\ memo = EmptyMemo
    /\ files = [q \in Paths |-> NoFile]
    /\ now = 0
    /\ alive = TRUE
    /\ credReads = 0
    /\ firstLoad = [set |-> FALSE, obj |-> NoObj]
    /\ fetched = [q \in Paths |-> NoFetch]
    /\ last = NoLast
    /\ ConcInit

Next ==
    \/ Start
    \/ Exit
    \/ Tick
    \/ EditCredFile
    \/ Call_get_user_info
    \/ Call_user_id
    \/ Call_user_cookie
    \/ \E range \in DateRanges : list_puzzles(range[1], range[2])
    \/ get_stats
    \/ \E puzzle_id \in PuzzleIds : get_puzzle_data(puzzle_id)

Spec == Init /\ [][Next]_vars

----------------------------------------------------------------------------
(* Concurrent invocations (SpecConc).  Every process is its own            *)
(* interpreter with its own lru_cache; they share user_info.json and the   *)
(* cache directory.  A process runs one cached operation, one file-system  *)
(* or network call at a time.                                              *)
(*   overlap     paths that were opened for writing while another process  *)
(*               had them open for writing                                 *)
(*   lastWriter  the process whose write reached the file last             *)
(*   tornRead    processes whose json.load read a file that a writer had   *)
(*               truncated and not yet written                             *)

Writing(q, path) == pc[q] = "write" /\ loc[q].path = path

(* user_id() and the cache path: lines 64-65 and 79 *)
c_begin(p, op, puzzle_id) ==
    /\ pc[p] = "idle"
    /\ LET c == user_id(EmptyMemo, credFile)
           k == user_cookie(c.memo, credFile)
       IN /\ c.ok
          /\ loc' = [loc EXCEPT ![p] =
                       [NoLocals EXCEPT
                          !.op = op,
                          !.path = IF op = "get_stats" THEN StatsPath(c.val)
                                   ELSE PuzzlePath(c.val, puzzle_id),
                          !.cookie = k.val]]
    /\ pc' = [pc EXCEPT ![p] = "exists"]
    /\ UNCHANGED <<files, overlap, lastWriter, tornRead>>
    /\ UNCHANGED seqVars

(* path.exists(), and for get_stats the age of the file: lines 53-59 *)
c_exists(p) ==
    /\ pc[p] = "exists"
    /\ pc' = [pc EXCEPT ![p] =
                IF CacheOpened(files, loc[p].path, loc[p].op = "get_stats",
                               Expiration, now)
                THEN "load" ELSE "get"]
    /\ UNCHANGED <<files, loc, overlap, lastWriter, tornRead>>
    /\ UNCHANGED seqVars

(* json.load(path.open()): line 60, then the test of lines 67 and 81 *)
c_load(p) ==
    /\ pc[p] = "load"
    /\ LET v == json_load(files[loc[p].path].content)
       IN /\ pc' = [pc EXCEPT ![p] = IF v = Invalid THEN "failed"
                                     ELSE IF Truthy(v) THEN "done"
                                     ELSE "get"]
          /\ loc' = [loc EXCEPT ![p] =
                       IF v = Invalid
                       THEN [@ EXCEPT !.err = "JSONDecodeError", !.at = "cache"]
                       ELSE IF Truthy(v) THEN [@ EXCEPT !.ret = v]
                       ELSE @]
          /\ tornRead' =
               IF /\ v = Invalid
                  /\ \E q \in Procs \ {p} : Writing(q, loc[p].path)
               THEN tornRead \cup {p} ELSE tornRead
    /\ UNCHANGED <<files, overlap, lastWriter>>
    /\ UNCHANGED seqVars

(* requests.get, raise_for_status, resp.json(): lines 68-72 and 82-85 *)
c_get(p) ==
    /\ pc[p] = "get"
    /\ \E resp \in Responses :
         LET body == json_load(resp.body)
             stats == loc[p].op = "get_stats"
             req == IF stats
                    THEN Request("v3/stats-and-streaks", loc[p].path[1], 0,
                                 "2014-01-01", "-", "-")
                    ELSE Request("v6/game", "-", loc[p].path[3], "-", "-",
                                 loc[p].cookie)
             failed == \/ raise_for_status(resp.status)
                       \/ body = Invalid
                       \/ stats /\ ~HasResults(body)
         IN /\ loc[p].cookie # NoKey \/ stats
            /\ pc' = [pc EXCEPT ![p] = IF failed THEN "failed" ELSE "open"]
            /\ loc' = [loc EXCEPT ![p] =
                         IF failed
                         THEN [@ EXCEPT !.sent = <<req>>,
                                        !.err = IF raise_for_status(resp.status)
                                                THEN "HTTPError"
                                                ELSE IF body = Invalid
                                                THEN "JSONDecodeError"
                                                ELSE "KeyError",
                                        !.at = "response"]
                         ELSE [@ EXCEPT !.sent = <<req>>,
                                        !.ret = IF stats THEN ResultsOf(body)
                                                ELSE body,
                                        !.text = IF stats
                                                 THEN json_dump(ResultsOf(body))
                                                 ELSE resp.body]]
    /\ UNCHANGED <<files, overlap, lastWriter, tornRead>>
    /\ UNCHANGED seqVars

(* open without O_TRUNC, as mode 'r+' would *)
c_open_keeping_content(p) ==
    /\ pc[p] = "open"
    /\ files' = [files EXCEPT ![loc[p].path] =
                   [exists |-> TRUE, content |-> @.content, mtime |-> now]]
    /\ overlap' = IF \E q \in Procs \ {p} : Writing(q, loc[p].path)
                  THEN overlap \cup {loc[p].path} ELSE overlap
    /\ pc' = [pc EXCEPT ![p] = "write"]
    /\ UNCHANGED <<loc, lastWriter, tornRead>>
    /\ UNCHANGED seqVars

(* mkdir and open(mode='w'): lines 73-74 and 86-87; the file is created or *)
(* truncated, the text is still in the process's buffer                    *)
c_open(p) ==
    /\ pc[p] = "open"
    /\ files' = [files EXCEPT ![loc[p].path] =
                   [exists |-> TRUE, content |-> <<>>, mtime |-> now]]
    /\ overlap' = IF \E q \in Procs \ {p} : Writing(q, loc[p].path)
                  THEN overlap \cup {loc[p].path} ELSE overlap
    /\ pc' = [pc EXCEPT ![p] = "write"]
    /\ UNCHANGED <<loc, lastWriter, tornRead>>
    /\ UNCHANGED seqVars

(* The buffer is flushed when the file object is closed: one write at the  *)
(* descriptor's own offset 0, over whatever the file holds by then         *)
c_write(p) ==
    /\ pc[p] = "write"
    /\ LET old == files[loc[p].path].content
           text == loc[p].text
       IN files' = [files EXCEPT ![loc[p].path] =
                      [exists |-> TRUE,
                       content |-> text \o SubSeq(old, Len(text) + 1, Len(old)),
                       mtime |-> now]]
    /\ lastWriter' = [lastWriter EXCEPT ![loc[p].path] = p]
    /\ loc' = [loc EXCEPT ![p] = [@ EXCEPT !.wrote = TRUE]]
    /\ pc' = [pc EXCEPT ![p] = "done"]
    /\ UNCHANGED <<overlap, tornRead>>
    /\ UNCHANGED seqVars

InitConc ==
    /\ credFile = [kind |-> "object",
                   obj |-> [user_id |-> "u1", cookie |-> "c1"]]
    /\ memo = EmptyMemo
    /\ files = [q \in Paths |-> NoFile]
    /\ now = 0
    /\ alive = TRUE
    /\ credReads = 0
    /\ firstLoad = [set |-> FALSE, obj |-> NoObj]
    /\ fetched = [q \in Paths |-> NoFetch]
    /\ last = NoLast
    /\ ConcInit

NextConc ==
    \E p \in Procs :
        \/ c_begin(p, "get_stats", 0)
        \/ \E puzzle_id \in PuzzleIds : c_begin(p, "get_puzzle_data", puzzle_id)
        \/ c_exists(p)
        \/ c_load(p)
        \/ c_get(p)
        \/ c_open(p)
        \/ c_write(p)

SpecConc == InitConc /\ [][NextConc]_vars

----------------------------------------------------------------------------
(* Claims about a single process at a time (Spec) *)

Is2xx(status) == 200 <= status /\ status < 300

CachedOps == {"get_stats", "get_puzzle_data"}

FetchOps == {"list_puzzles", "get_stats", "get_puzzle_data"}

(* C1: when the puzzle's cache file exists and holds valid JSON of any     *)
(* value and age, get_puzzle_data sends no request and returns the parsed  *)
(* content of the file.                                                    *)
C1_CachedPuzzleNeverRefetched ==
    ( /\ last.op = "get_puzzle_data"
      /\ last.pre.exists
      /\ json_load(last.pre.content) # Invalid )
    => /\ last.sent = <<>>
       /\ last.outcome = "return"
       /\ last.ret = json_load(last.pre.content)

(* C2: from no cache entry, the first get_puzzle_data(p) that gets a 2xx   *)
(* JSON response sends exactly one GET v6/game/p with the nyt-s cookie and *)
(* writes the raw body to the puzzle's cache file; every later             *)
(* get_puzzle_data(p), with no other writer in between, sends nothing and  *)
(* returns what the first call returned.                                   *)
C2_FetchOnceThenCached ==
    /\ ( /\ last.op = "get_puzzle_data"
         /\ last.path \in Paths
         /\ ~last.pre.exists
         /\ Is2xx(last.resp.status)
         /\ json_load(last.resp.body) # Invalid
         /\ last.outcome # "killed" )
       => /\ last.sent = <<Request("v6/game", "-", last.puzzle, "-", "-",
                                   last.credObj.cookie)>>
          /\ files[last.path].exists
          /\ files[last.path].content = last.resp.body
          /\ last.outcome = "return"
    /\ ( /\ last.op = "get_puzzle_data"
         /\ last.preFetched.set )
       => /\ last.sent = <<>>
          /\ last.outcome = "return"
          /\ last.ret = last.preFetched.val

(* C3: when stats.json exists, is at most 12 hours old and holds valid     *)
(* JSON of any value, get_stats sends no request, leaves the file as it is *)
(* and returns the parsed content of the file.                             *)
C3_FreshStatsServedFromCache ==
    ( /\ last.op = "get_stats"
      /\ last.pre.exists
      /\ last.age <= Expiration
      /\ json_load(last.pre.content) # Invalid )
    => /\ last.sent = <<>>
       /\ files = last.preFiles
       /\ last.outcome = "return"
       /\ last.ret = json_load(last.pre.content)

(* The response get_stats needs: 2xx, a JSON object with a results field *)
StatsResponseOk(resp) ==
    /\ Is2xx(resp.status)
    /\ json_load(resp.body) # Invalid
    /\ HasResults(json_load(resp.body))

(* C4: when stats.json is more than 12 hours old, get_stats sends exactly  *)
(* one GET to stats-and-streaks and, on a successful response (and unless  *)
(* the process is killed in the write), stats.json holds the dumped        *)
(* results field of that response and the call returns that fresh value.   *)
C4_StaleStatsRefetched ==
    ( /\ last.op = "get_stats"
      /\ last.pre.exists
      /\ last.age > Expiration )
    => /\ last.sent = <<Request("v3/stats-and-streaks", last.path[1], 0,
                                "2014-01-01", "-", "-")>>
       /\ (StatsResponseOk(last.resp) /\ last.outcome # "killed")
          => /\ last.outcome = "return"
             /\ last.ret = ResultsOf(json_load(last.resp.body))
             /\ files[last.path] =
                  [exists |-> TRUE,
                   content |-> json_dump(ResultsOf(json_load(last.resp.body))),
                   mtime |-> now]
             /\ json_load(files[last.path].content) = last.ret

(* A stale stats.json holding a usable value was replaced by a fresh one *)
C4_Witness ==
    /\ last.op = "get_stats"
    /\ last.pre.exists
    /\ last.age > Expiration
    /\ Truthy(json_load(last.pre.content))
    /\ last.outcome = "return"
    /\ last.ret # json_load(last.pre.content)
    /\ files[last.path].content # last.pre.content

C6_CorruptCacheIsAMiss ==
    ( /\ last.op \in CachedOps
      /\ last.pre.exists
      /\ last.op = "get_stats" => last.age <= Expiration
      /\ json_load(last.pre.content) = Invalid
      /\ last.credObj.cookie # NoKey )
    => /\ ~(last.outcome = "error" /\ last.at = "cache")
       /\ Len(last.sent) = 1
       /\ (last.outcome = "return")
          => json_load(files[last.path].content) = last.ret

(* C7: in one process user_info.json is read at most once; every caller    *)
(* gets the object of the first load, whatever the file holds by then.     *)
C7_CredentialsLoadedOnce ==
    /\ credReads <= 1
    /\ memo.loaded => (firstLoad.set /\ memo.obj = firstLoad.obj)
    /\ last.credGot => (firstLoad.set /\ last.credObj = firstLoad.obj)
    /\ (last.op = "user_id" /\ last.outcome = "return")
       => last.credVal = firstLoad.obj.user_id
    /\ (last.op = "user_cookie" /\ last.outcome = "return")
       => last.credVal = firstLoad.obj.cookie

(* A call after the load got the memoized cookie although the file on disk *)
(* no longer has one                                                       *)
C7_Witness ==
    /\ last.op = "user_cookie"
    /\ last.outcome = "return"
    /\ last.credVal = "c1"
    /\ credReads = 1
    /\ credFile.obj.cookie = NoKey

(* C8: when user_info.json is absent, not valid JSON or lacks user_id or   *)
(* cookie, no fetch operation returns a value, sends a request or reads or *)
(* writes a cache entry: it fails on the credentials.                      *)
C8_BadCredentialsStopEveryFetch ==
    ( /\ last.op \in FetchOps
      /\ \/ ~last.credGot
         \/ last.credObj.user_id = NoKey
         \/ last.credObj.cookie = NoKey )
    => /\ last.outcome = "error"
       /\ last.at = "credentials"
       /\ last.sent = <<>>
       /\ ~last.opened
       /\ files = last.preFiles

(* C9: list_puzzles never opens a cache file and leaves every cache file   *)
(* as it was, whether it succeeds or fails; once the user id is known it   *)
(* sends exactly one GET v3/<user_id>/puzzles.json without the nyt-s       *)
(* header.                                                                 *)
C9_ListPuzzlesPassthrough ==
    last.op = "list_puzzles"
    => /\ ~last.opened
       /\ files = last.preFiles
       /\ last.credOk
          => last.sent = <<Request("v3/puzzles", last.credObj.user_id, 0,
                                   last.dates[1], last.dates[2], "-")>>
       /\ ~last.credOk => last.sent = <<>>

(* list_puzzles returned results while both cache files existed, untouched *)
C9_Witness ==
    /\ last.op = "list_puzzles"
    /\ last.outcome = "return"
    /\ Len(last.sent) = 1
    /\ \A q \in Paths : files[q].exists /\ files[q] = last.preFiles[q]

----------------------------------------------------------------------------
(* Claims about concurrent invocations (SpecConc) *)

(* The processes that opened the path for writing *)
Writers(path) ==
    { p \in Procs : loc[p].path = path /\ (pc[p] = "write" \/ loc[p].wrote) }

(* Exactly two invocations missed on the path, and both have finished *)
TwoWritersDone(path) ==
    /\ Cardinality(Writers(path)) = 2
    /\ \A p \in Writers(path) : pc[p] = "done"

(* C10 as written: two invocations that both miss on a key each send their *)
(* own request and, once both have finished, the cache file holds exactly  *)
(* the complete content of whichever wrote last.                           *)
C10_LastWriterWins ==
    \A path \in Paths :
        TwoWritersDone(path)
        => /\ \A p \in Writers(path) : Len(loc[p].sent) = 1
           /\ files[path].content = loc[lastWriter[path]].text

(* C10 amended: two invocations that both miss on a key each send their    *)
(* own request; once both have finished, the cache file holds exactly the  *)
(* complete content of whichever wrote last provided the two did not have  *)
(* the file open for writing at the same time.                             *)
C10_LastWriterWinsUnlessOverlap ==
    \A path \in Paths :
        (TwoWritersDone(path) /\ path \notin overlap)
        => /\ \A p \in Writers(path) : Len(loc[p].sent) = 1
           /\ lastWriter[path] \in Writers(path)
           /\ files[path].content = loc[lastWriter[path]].text

(* Two writers of different texts, one after the other, left the later     *)
(* text in the file, and a third invocation read the file while it was     *)
(* truncated                                                               *)
C10_Witness ==
    \E path \in Paths :
        /\ TwoWritersDone(path)
        /\ path \notin overlap
        /\ \E p \in Writers(path) : loc[p].text # files[path].content
        /\ files[path].content = loc[lastWriter[path]].text
        /\ \E r \in tornRead : loc[r].path = path /\ pc[r] = "failed"

====
